---- MODULE Spec2Model ----
(***************************************************************************)
(* Model of the DSM reader core: DSMProtocol (src/dsm_protocol.py), the    *)
(* UDS client, on top of OpenPortConnector (src/openport_connector.py),    *)
(* the serial-to-CAN adapter link.                                         *)
(*                                                                         *)
(* Time is counted in ticks of 20 ms.  Time passes only where the code     *)
(* blocks: the busy poll of receive_can_frame, a blocking serial           *)
(* readline(), and time.sleep().  Bytes are integers 0..255, byte strings  *)
(* are sequences of bytes, Python's None is the value None below.          *)
(*                                                                         *)
(* Spec is the client called from one thread.  MtSpec has two threads call *)
(* it at once, WireSpec takes the serial line of a frame through the       *)
(* format of send_can_frame and the parse of receive_can_frame, ConnSpec   *)
(* has the two paths that mark a link connected, and GuiSpec the scan      *)
(* threads of DSMReaderGUI (src/dsm_reader_gui.py).                        *)
(***************************************************************************)
EXTENDS Integers, Sequences, FiniteSets, TLC

VARIABLES
    is_connected,   \* OpenPortConnector.is_connected
    serial_open,    \* the serial handle of the connector is open
    rxbuf,          \* lines waiting in the serial input buffer, oldest first
    arrivals,       \* number of lines the adapter has delivered so far
    now,            \* time.time(), in ticks, counted from the current call
    pc,             \* position of the calling thread
    op,             \* the operation being executed and its arguments
    data,           \* the request bytes handed to _send_uds
    sent,           \* frames written to the serial link by the current call
    start_time,     \* _send_uds: start_time
    recv_start,     \* receive_can_frame: start_time
    response,       \* the value _send_uds returns
    send_ok,        \* _send_uds: the value send_can_frame returned
    resp_from,      \* id of the frame whose payload _send_uds returned, or NoId
    stale,          \* buffered lines that were there before the request was sent
    resp_stale,     \* the frame _send_uds returned was one of those
    discarded,      \* frames with another id dropped by the current _send_uds
    result,         \* the value the operation returns
    seg_idx,        \* scan_eeprom_segments: index of seg_id in the range
    segments,       \* scan_eeprom_segments: segments
    queries,        \* identifiers passed to read_data_by_identifier so far
    last_ret,       \* time the previous read of the scan returned, -1 if none
    w_pc,           \* frame line round trip: position
    w_src,          \* frame line round trip: where the line comes from
    can_id,         \* send_can_frame: can_id
    payload,        \* send_can_frame: data
    w_line,         \* the characters of the serial line
    frame,          \* what the parse in receive_can_frame made of the line
    lock,           \* OpenPortConnector.lock: the thread that holds it
    t_pc,           \* position of each thread that calls the client
    t_calls,        \* requests each thread has issued so far
    t_open,         \* requests of each thread transmitted and not yet resolved
    t_ret,          \* what send_can_frame returned to each thread
    t_wrote,        \* parts of its line each thread's current send has written
    w_last,         \* what the serial.write calls did last, and for which send
    c_step,         \* OpenPortConnector.connect: the step it is at, 0 outside
    c_ret,          \* connect(): "running", or what the last call returned
    c_opened,       \* the last connect() opened a serial handle
    cmds,           \* commands the latest OpenPortConnector.connect() issued
    g_connected,    \* DSMReaderGUI.is_connected
    g_serial,       \* DSMReaderGUI.serial_conn is an open port
    g_step,         \* connect_to_port: the step it is at, 0 outside
    g_cmds,         \* commands the latest connect_to_port() issued
    scanning,       \* DSMReaderGUI.scanning
    s_started,      \* scan threads started so far
    s_pc,           \* position of each scan thread
    s_seg,          \* index of seg_id in the range, for each scan thread
    s_cleared,      \* stop_scan() has run since the scan thread started
    s_late          \* the scan thread began a segment query after that

wireVars == <<w_pc, w_src, can_id, payload, w_line, frame>>

mtVars == <<lock, t_pc, t_calls, t_open, t_ret, t_wrote, w_last>>

connVars == <<c_step, cmds, c_ret, c_opened>>
guiConnVars == <<g_connected, g_serial, g_step, g_cmds>>
scanThreadVars == <<scanning, s_started, s_pc, s_seg, s_cleared, s_late>>
guiVars == <<connVars, guiConnVars, scanThreadVars>>

\* the variables the client behaviours leave alone
auxVars == <<wireVars, mtVars, guiVars>>

clientVars == <<is_connected, serial_open, rxbuf, arrivals, now, pc, op, data,
                sent, start_time, recv_start, response, send_ok, resp_from,
                stale, resp_stale,
                discarded, result, seg_idx, segments, queries, last_ret>>

vars == <<is_connected, serial_open, rxbuf, arrivals, now, pc, op, data, sent,
          start_time, recv_start, response, send_ok, resp_from, discarded,
          stale, resp_stale,
          result,
          seg_idx, segments, queries, last_ret, auxVars>>

----------------------------------------------------------------------------
(* Program constants *)

tx_id == 2016            \* 0x7E0
rx_id == 2024            \* 0x7E8
Timeout == 100           \* 2.0 s
Slice == 5               \* 0.1 s
SerialTimeout == 50      \* 1 s
ScanDelay == 1           \* 0.02 s

(* Bounds of the model *)

MaxArrivals == 3         \* lines the adapter delivers in one behaviour
MaxBuf == 1              \* lines held in the serial input buffer
MaxCalls == 2            \* requests one thread issues in one behaviour
MaxScans == 2            \* scan threads the GUI starts in one behaviour
GuiSegments == 3         \* identifiers in the range of the GUI scan

(* Arbitration ids of received lines *)

OtherId == rx_id + 1     \* some arbitration id other than rx_id
NoId == -1               \* marks a line that does not parse as a frame

----------------------------------------------------------------------------
(* Values *)

None == [t |-> "None"]
Bytes(s) == [t |-> "bytes", v |-> s]
Bool(b) == [t |-> "bool", v |-> b]
List(l) == [t |-> "list", v |-> l]

\* Python truth value of a bytes-or-None value
Truthy(x) == x # None /\ Len(x.v) > 0

\* s[n:] for a byte string s (n counted from 0)
From(s, n) == SubSeq(s, n + 1, Len(s))

----------------------------------------------------------------------------
(* Argument values the calls are made with *)

DataIds == {0, 4660, 61696, 65535}         \* 0x0000 0x1234 0xF100 0xFFFF
\* <<address, length>>: 0x12345678/0x0100, 0/0, 0x7FFFFFFF/0xFFFF, 0x01000000/0x00FF
MemArgs == {<<305419896, 256>>, <<0, 0>>, <<2147483647, 65535>>, <<16777216, 255>>}
\* <<start_id, end_id, step>>
\* [0xF100, 0xF120] step 0x10, [0xF100, 0xF105] step 3, [0xF100, 0xF100] step 0x10
ScanArgs == {<<61696, 61728, 16>>, <<61696, 61701, 3>>, <<61696, 61696, 16>>}

\* payloads a frame with id rx_id may carry while the request req is pending:
\* the positive response to req (service id + 0x40) cut short, bare, and with
\* data bytes; the same with the echoed bytes altered; a negative response;
\* the service id not raised; and positive responses to other requests
RespPayloads(req) ==
    LET pos == <<req[1] + 64>>
        n == Len(req)
        e1 == pos \o SubSeq(req, 2, IF n < 2 THEN n ELSE 2)
        e2 == pos \o SubSeq(req, 2, IF n < 3 THEN n ELSE 3)
        sw == IF n < 3 THEN pos \o <<req[2] + 1>> ELSE pos \o <<req[3], req[2]>>
        d == <<170, 187>>
    IN  {<<>>, pos, e1, e2, e2 \o d, sw \o d, <<127, req[1], 49>>,
         <<req[1]>> \o Tail(e2) \o d,
         <<80, 3>>, <<98, 241, 0>> \o d, <<99>> \o d, <<103, 1>> \o d}

\* <<level, key>> of security_access; key is None (the default) or a byte string
SaArgs ==
    {<<1, None>>, <<1, Bytes(<<170>>)>>, <<2, None>>, <<2, Bytes(<<>>)>>,
     <<2, Bytes(<<170>>)>>, <<2, Bytes(<<1, 2, 3, 4, 5, 6, 7>>)>>, <<3, None>>}

\* ticks a readline() on an unterminated line blocks: no terminator comes and
\* the serial read timeout ends the call
BlockTimes == {SerialTimeout}

\* a line in the serial input buffer: the arbitration id it parses to (NoId for
\* a line that is no frame) and whether its line terminator has arrived yet
Lines == [id : {rx_id, OtherId, NoId}, term : BOOLEAN]

----------------------------------------------------------------------------
(* DSMProtocol: request encoding and response validation *)

\* start_session: the request bytes
StartSessionRequest == <<16, 3>>

\* faulty variant of RdbiRequest: the identifier low byte first
RdbiRequestLowFirst(data_id) == <<34, data_id % 256, (data_id \div 256) % 256>>

\* read_data_by_identifier: the request bytes
RdbiRequest(data_id) == <<34, (data_id \div 256) % 256, data_id % 256>>

\* faulty variant of RdbiResult: the echoed identifier is not compared
RdbiResultNoEcho(data_id, resp) ==
    IF Truthy(resp) /\ Len(resp.v) > 2 /\ resp.v[1] = 98
    THEN Bytes(From(resp.v, 3))
    ELSE None

\* read_data_by_identifier: the value returned for a response of _send_uds
RdbiResult(data_id, resp) ==
    IF Truthy(resp) /\ Len(resp.v) > 2
       /\ resp.v[1] = 98
       /\ resp.v[2] = data_id \div 256 /\ resp.v[3] = data_id % 256
    THEN Bytes(From(resp.v, 3))
    ELSE None

\* security_access: whether the call sends a request at all
SaSends(level, key) == level = 1 \/ (level = 2 /\ key # None /\ Len(key.v) > 0)

\* security_access: the request bytes
SaRequest(level, key) == IF level = 1 THEN <<39, 1>> ELSE <<39, 2>> \o key.v

\* faulty variant of SaSeedResult: the echoed sub-function is not compared
SaSeedResultNoSub(resp) ==
    IF Truthy(resp) /\ Len(resp.v) > 2 /\ resp.v[1] = 103
    THEN Bytes(From(resp.v, 2))
    ELSE None

\* security_access, level 1: the value returned for a response of _send_uds
SaSeedResult(resp) ==
    IF Truthy(resp) /\ Len(resp.v) > 2 /\ resp.v[1] = 103 /\ resp.v[2] = 1
    THEN Bytes(From(resp.v, 2))
    ELSE None

\* faulty variant of SaKeyResult: an empty payload counts as no response
SaKeyResultTruthy(resp) == Bool(Truthy(resp))

\* security_access, level 2 with a key: the value returned
SaKeyResult(resp) == Bool(resp # None)

\* faulty variant of RmbaRequest: the length low byte first
RmbaRequestLenLowFirst(address, length) ==
    <<35, 68, 34>>
    \o <<(address \div 16777216) % 256, (address \div 65536) % 256,
         (address \div 256) % 256, address % 256>>
    \o <<length % 256, (length \div 256) % 256>>

\* read_memory_by_address: the request bytes
RmbaRequest(address, length) ==
    <<35, 68, 34>>
    \o <<(address \div 16777216) % 256, (address \div 65536) % 256,
         (address \div 256) % 256, address % 256>>
    \o <<(length \div 256) % 256, length % 256>>

\* faulty variant of RmbaResult: the service byte is not compared
RmbaResultAny(resp) ==
    IF Truthy(resp) THEN Bytes(From(resp.v, 1)) ELSE None

\* read_memory_by_address: the value returned for a response of _send_uds
RmbaResult(resp) ==
    IF Truthy(resp) /\ resp.v[1] = 99 THEN Bytes(From(resp.v, 1)) ELSE None

\* faulty variant of ScanRange: range(start_id, end_id, step), end_id left out
ScanRangeExclusive(start_id, end_id, step) ==
    LET stop == end_id
        n == IF start_id < stop THEN ((stop - start_id - 1) \div step) + 1 ELSE 0
    IN  [k \in 1..n |-> start_id + (k - 1) * step]

\* scan_eeprom_segments: range(start_id, end_id + 1, step) for step > 0
ScanRange(start_id, end_id, step) ==
    LET stop == end_id + 1
        n == IF start_id < stop THEN ((stop - start_id - 1) \div step) + 1 ELSE 0
    IN  [k \in 1..n |-> start_id + (k - 1) * step]

\* faulty variant of ScanCollect: empty data is collected too
ScanCollectNotNone(segs, seg_id, d) ==
    IF d # None THEN Append(segs, <<seg_id, d.v>>) ELSE segs

\* scan_eeprom_segments: segments after the read of seg_id returned d
ScanCollect(segs, seg_id, d) ==
    IF Truthy(d) /\ Len(d.v) > 0 THEN Append(segs, <<seg_id, d.v>>) ELSE segs

\* faulty variant of Resolves: a frame with any id resolves the request
ResolvesAny(resp_id) == resp_id = resp_id

\* _send_uds: a received frame resolves the request
Resolves(resp_id) == resp_id = rx_id

\* faulty variant of TxFrame: the request goes out on the response id
TxFrameOnRxId(d) == [id |-> rx_id, data |-> d]

\* _send_uds: the frame handed to send_can_frame for the request bytes d
TxFrame(d) == [id |-> tx_id, data |-> d]

\* faulty variant of WaitsForResponse: the result of the send is ignored
WaitsAlways(ok) == ok \/ ~ok

\* _send_uds: whether it goes on to poll after send_can_frame returned ok
WaitsForResponse(ok) == ok

\* the value the operation o returns for the response resp of _send_uds
OpResult(o, resp) ==
    CASE o.name = "start_session" -> resp
      [] o.name = "read_data_by_identifier" -> RdbiResult(o.data_id, resp)
      [] o.name = "security_access" ->
            IF o.level = 1 THEN SaSeedResult(resp) ELSE SaKeyResult(resp)
      [] o.name = "read_memory_by_address" -> RmbaResult(resp)

NoOp == [name |-> "none"]

----------------------------------------------------------------------------
(* Initial state: a connector and a client just constructed *)

ClientInit ==
    /\ is_connected = FALSE
    /\ serial_open = FALSE
    /\ rxbuf = <<>>
    /\ arrivals = 0
    /\ now = 0
    /\ pc = "idle"
    /\ op = NoOp
    /\ data = <<>>
    /\ sent = <<>>
    /\ start_time = 0
    /\ recv_start = 0
    /\ response = None
    /\ send_ok = FALSE
    /\ resp_from = NoId
    /\ stale = 0
    /\ resp_stale = FALSE
    /\ discarded = 0
    /\ result = None
    /\ seg_idx = 0
    /\ segments = <<>>
    /\ queries = <<>>
    /\ last_ret = 0

callVars == <<start_time, recv_start, response, send_ok, resp_from, discarded,
              stale, resp_stale>>
scanVars == <<seg_idx, segments, queries, last_ret>>
linkVars == <<is_connected, serial_open>>

----------------------------------------------------------------------------
(* OpenPortConnector.connect and disconnect *)

\* connect(): opening the port or any of the four commands may raise; f is the
\* step that raises (0: serial.Serial, 1..4: a command), 5 if none does
Connect(f) ==
    /\ pc = "idle"
    /\ serial_open' = IF f = 0 THEN serial_open ELSE TRUE
    /\ is_connected' = IF f = 5 THEN TRUE ELSE is_connected
    /\ UNCHANGED <<rxbuf, arrivals, now, pc, op, data, sent, result>>
    /\ UNCHANGED <<callVars, scanVars>>
    /\ UNCHANGED auxVars

\* disconnect()
DisconnectLink ==
    /\ pc = "idle"
    /\ serial_open' = FALSE
    /\ is_connected' = FALSE

Disconnect ==
    /\ DisconnectLink
    /\ UNCHANGED <<rxbuf, arrivals, now, pc, op, data, sent, result>>
    /\ UNCHANGED <<callVars, scanVars>>
    /\ UNCHANGED auxVars

----------------------------------------------------------------------------
(* The adapter: a line arrives in the serial input buffer.  The buffer is    *)
(* looked at only by receive_can_frame, so a line that arrives while the     *)
(* thread is elsewhere is taken to arrive when it next gets there.           *)

Arrive(l) ==
    /\ pc \in {"idle", "recv"}
    /\ serial_open
    /\ arrivals < MaxArrivals
    /\ Len(rxbuf) < MaxBuf
    /\ rxbuf' = Append(rxbuf, l)
    /\ arrivals' = arrivals + 1
    /\ UNCHANGED <<now, pc, op, data, sent, result>>
    /\ UNCHANGED <<linkVars, callVars, scanVars>>
    /\ UNCHANGED auxVars

----------------------------------------------------------------------------
(* Calls of the DSMProtocol operations.  Only differences of clock readings  *)
(* are used by the code, so the clock is counted from the start of the       *)
(* request in progress.                                                      *)

\* entry of an operation that goes on to _send_uds(d)
Enter(o, d) ==
    /\ pc = "idle"
    /\ op' = o
    /\ data' = d
    /\ now' = 0
    /\ pc' = "send"
    /\ UNCHANGED <<rxbuf, arrivals, sent, result>>
    /\ UNCHANGED <<linkVars, callVars, segments, last_ret>>
    /\ UNCHANGED auxVars

CallStartSession ==
    /\ Enter([name |-> "start_session"], StartSessionRequest)
    /\ UNCHANGED <<seg_idx, queries>>

CallReadDataByIdentifier(data_id) ==
    /\ Enter([name |-> "read_data_by_identifier", data_id |-> data_id],
             RdbiRequest(data_id))
    /\ queries' = <<data_id>>
    /\ UNCHANGED seg_idx

\* security_access(level, key) on a path that sends a request
CallSecurityAccess(level, key) ==
    /\ SaSends(level, key)
    /\ Enter([name |-> "security_access", level |-> level, key |-> key],
             SaRequest(level, key))
    /\ UNCHANGED <<seg_idx, queries>>

\* security_access(level, key) falling through to the final return None
CallSecurityAccessNoSend(level, key) ==
    /\ pc = "idle"
    /\ ~SaSends(level, key)
    /\ op' = [name |-> "security_access", level |-> level, key |-> key]
    /\ result' = None
    /\ pc' = "done"
    /\ UNCHANGED <<rxbuf, arrivals, now, data, sent>>
    /\ UNCHANGED <<linkVars, callVars, scanVars>>
    /\ UNCHANGED auxVars

CallReadMemoryByAddress(address, length) ==
    /\ Enter([name |-> "read_memory_by_address", address |-> address,
              length |-> length], RmbaRequest(address, length))
    /\ UNCHANGED <<seg_idx, queries>>

\* scan_eeprom_segments(start_id, end_id, step), for a range that is not
\* empty, up to the first read_data_by_identifier(seg_id)
CallScan(start_id, end_id, step) ==
    LET r == ScanRange(start_id, end_id, step)
        o == [name |-> "scan_eeprom_segments", start_id |-> start_id,
              end_id |-> end_id, step |-> step]
    IN  /\ Len(r) > 0
        /\ Enter(o, RdbiRequest(r[1]))
        /\ seg_idx' = 1
        /\ queries' = <<r[1]>>

\* the identifier the read in progress asks for
CurrentId ==
    IF op.name = "scan_eeprom_segments"
    THEN ScanRange(op.start_id, op.end_id, op.step)[seg_idx]
    ELSE op.data_id

----------------------------------------------------------------------------
(* DSMProtocol._send_uds over OpenPortConnector, and the rest of the         *)
(* operation that called it                                                  *)

\* _send_uds returns resp at time t: the calling operation validates it and
\* returns; in a scan, read_data_by_identifier returns and the segment is
\* collected
Finish(resp, t) ==
    /\ response' = resp
    /\ IF op.name = "scan_eeprom_segments"
       THEN /\ segments' = ScanCollect(segments, CurrentId,
                                       RdbiResult(CurrentId, resp))
            /\ last_ret' = t
            /\ pc' = "sleep"
            /\ UNCHANGED result
       ELSE /\ result' = OpResult(op, resp)
            /\ pc' = "done"
            /\ UNCHANGED <<segments, last_ret>>

\* _send_uds: connector.send_can_frame(tx_id, bytes(data)), which returns r;
\* wr is false when serial.write raises.  Then the poll loop is entered, or
\* None is returned at once.
SendCanFrame(wr) ==
    LET r == is_connected /\ wr IN
    /\ pc = "send"
    /\ send_ok' = r
    /\ sent' = IF r THEN Append(sent, TxFrame(data)) ELSE sent
    /\ stale' = IF r THEN Len(rxbuf) ELSE stale
    /\ IF WaitsForResponse(r)
       THEN /\ start_time' = now
            /\ pc' = "poll"
            /\ UNCHANGED <<response, result, segments, last_ret>>
       ELSE /\ Finish(None, now)
            /\ UNCHANGED start_time
    /\ UNCHANGED <<rxbuf, arrivals, now, op, data, recv_start, resp_from, discarded,
                   resp_stale>>
    /\ UNCHANGED <<linkVars, seg_idx, queries>>
    /\ UNCHANGED auxVars

\* _send_uds: the test of the while loop; the call of receive_can_frame(0.1),
\* or the return None at the deadline
Poll ==
    /\ pc = "poll"
    /\ IF now - start_time < Timeout
       THEN /\ recv_start' = now
            /\ pc' = "recv"
            /\ UNCHANGED <<response, result, segments, last_ret>>
       ELSE /\ Finish(None, now)
            /\ UNCHANGED recv_start
    /\ UNCHANGED <<rxbuf, arrivals, now, op, data, sent, start_time, send_ok,
                   resp_from, discarded, stale, resp_stale>>
    /\ UNCHANGED <<linkVars, seg_idx, queries>>
    /\ UNCHANGED auxVars

\* receive_can_frame: the window has elapsed, return None
RecvTimeout ==
    /\ pc = "recv"
    /\ ~(now - recv_start < Slice)
    /\ pc' = "poll"
    /\ UNCHANGED <<rxbuf, arrivals, now, op, data, sent, result>>
    /\ UNCHANGED <<linkVars, callVars, scanVars>>
    /\ UNCHANGED auxVars

\* receive_can_frame: nothing in_waiting, the loop spins until the window has
\* elapsed
RecvSpin ==
    /\ pc = "recv"
    /\ now - recv_start < Slice
    /\ rxbuf = <<>>
    /\ now' = recv_start + Slice
    /\ UNCHANGED <<rxbuf, arrivals, pc, op, data, sent, result>>
    /\ UNCHANGED <<linkVars, callVars, scanVars>>
    /\ UNCHANGED auxVars

\* receive_can_frame: input is waiting, serial.readline() and the parse of the
\* line.  readline() returns at once for a terminated line; otherwise it blocks
\* for d ticks, until the serial read timeout ends it.  A line that is no frame
\* is skipped and the loop goes on.  A frame, with the payload p its hex digits
\* decode to, is handed to _send_uds, which returns its payload or drops it.
RecvLine(d) ==
    LET line == Head(rxbuf) IN
    /\ pc = "recv"
    /\ now - recv_start < Slice
    /\ rxbuf # <<>>
    /\ IF line.term THEN d = 0 ELSE d \in BlockTimes
    /\ rxbuf' = Tail(rxbuf)
    /\ now' = now + d
    /\ stale' = IF stale > 0 THEN stale - 1 ELSE 0
    /\ IF line.id = NoId
       THEN /\ pc' = "recv"
            /\ UNCHANGED <<response, resp_from, resp_stale, discarded, result,
                           segments, last_ret>>
       ELSE IF Resolves(line.id)
            THEN /\ \E p \in RespPayloads(data) : Finish(Bytes(p), now + d)
                 /\ resp_from' = line.id
                 /\ resp_stale' = (stale > 0)
                 /\ UNCHANGED discarded
            ELSE /\ discarded' = discarded + 1
                 /\ pc' = "poll"
                 /\ UNCHANGED <<response, resp_from, resp_stale, result, segments,
                                last_ret>>
    /\ UNCHANGED <<arrivals, op, data, sent, start_time, recv_start, send_ok>>
    /\ UNCHANGED <<linkVars, seg_idx, queries>>
    /\ UNCHANGED auxVars

----------------------------------------------------------------------------
(* scan_eeprom_segments between two reads *)

\* time.sleep(0.02), which returns when the delay has passed; then the next
\* read_data_by_identifier(seg_id) of the range, or the return of segments
\* after the last one
ScanSleep ==
    LET r == ScanRange(op.start_id, op.end_id, op.step)
        slept == ScanDelay
    IN
    /\ pc = "sleep"
    /\ IF seg_idx < Len(r)
       THEN /\ seg_idx' = seg_idx + 1
            /\ data' = RdbiRequest(r[seg_idx + 1])
            /\ queries' = Append(queries, r[seg_idx + 1])
            /\ response' = None
            /\ send_ok' = FALSE
            /\ resp_from' = NoId
            /\ stale' = 0
            /\ resp_stale' = FALSE
            /\ discarded' = 0
            /\ now' = 0
            /\ last_ret' = last_ret - (now + slept)
            /\ pc' = "send"
            /\ UNCHANGED result
       ELSE /\ result' = List(segments)
            /\ now' = now + slept
            /\ pc' = "done"
            /\ UNCHANGED <<seg_idx, data, queries, response, send_ok, resp_from,
                           stale, resp_stale, discarded, last_ret>>
    /\ UNCHANGED <<rxbuf, arrivals, op, sent, start_time, recv_start, segments>>
    /\ UNCHANGED linkVars
    /\ UNCHANGED auxVars

\* the caller takes the returned value; the client is ready for the next call
Return ==
    /\ pc = "done"
    /\ pc' = "idle"
    /\ op' = NoOp
    /\ data' = <<>>
    /\ sent' = <<>>
    /\ now' = 0
    /\ start_time' = 0
    /\ recv_start' = 0
    /\ response' = None
    /\ send_ok' = FALSE
    /\ resp_from' = NoId
    /\ stale' = 0
    /\ resp_stale' = FALSE
    /\ discarded' = 0
    /\ result' = None
    /\ seg_idx' = 0
    /\ segments' = <<>>
    /\ queries' = <<>>
    /\ last_ret' = 0
    /\ UNCHANGED <<rxbuf, arrivals, linkVars>>
    /\ UNCHANGED auxVars

----------------------------------------------------------------------------
(* Several threads call one client.  _send_uds takes no lock; send_can_frame *)
(* takes OpenPortConnector.lock around the serial write.  Time is left out:  *)
(* the deadline of a waiting request may pass at any moment.                 *)

Threads == {1, 2}
NoThread == 0

MtIdle ==
    /\ lock = NoThread
    /\ t_pc = [t \in Threads |-> "idle"]
    /\ t_calls = [t \in Threads |-> 0]
    /\ t_open = [t \in Threads |-> 0]
    /\ t_ret = [t \in Threads |-> FALSE]
    /\ t_wrote = [t \in Threads |-> 0]
    /\ w_last = [th |-> NoThread, n |-> 0, ev |-> "none"]

\* faulty variant of CanAcquire: the lock is not waited for
CanAcquireAlways(t) == t \in Threads

\* with self.lock: thread t gets the lock when no thread holds it
CanAcquire(t) == lock = NoThread

\* faulty variant of LockAfterWith: the lock stays taken when the write raised
LockAfterWithKeptOnRaise(t, raised) == IF raised THEN t ELSE NoThread

\* with self.lock: the holder of the lock after thread t left the block, by
\* return or through the except clause
LockAfterWith(t, raised) == NoThread

AllIdle == \A t \in Threads : t_pc[t] = "idle"

\* connect() and disconnect() by the owner of the link while no request runs
MtConnect(f) == AllIdle /\ Connect(f)

MtDisconnect == AllIdle /\ Disconnect

\* the adapter delivers a line
MtArrive(l) == l.term /\ Arrive(l)

\* thread t calls a UDS operation, which calls _send_uds
MtCall(t) ==
    /\ t_pc[t] = "idle"
    /\ t_calls[t] < MaxCalls
    /\ t_pc' = [t_pc EXCEPT ![t] = "check"]
    /\ t_calls' = [t_calls EXCEPT ![t] = @ + 1]
    /\ t_wrote' = [t_wrote EXCEPT ![t] = 0]
    /\ UNCHANGED <<lock, t_open, t_ret, w_last, clientVars, wireVars, guiVars>>

\* send_can_frame: if not self.is_connected: return False
MtCheck(t) ==
    /\ t_pc[t] = "check"
    /\ IF is_connected
       THEN /\ t_pc' = [t_pc EXCEPT ![t] = "acquire"]
            /\ UNCHANGED t_ret
       ELSE /\ t_pc' = [t_pc EXCEPT ![t] = "sent"]
            /\ t_ret' = [t_ret EXCEPT ![t] = FALSE]
    /\ UNCHANGED <<lock, t_calls, t_open, t_wrote, w_last, clientVars, wireVars, guiVars>>

\* send_can_frame: with self.lock
MtAcquire(t) ==
    /\ t_pc[t] = "acquire"
    /\ CanAcquire(t)
    /\ lock' = t
    /\ t_pc' = [t_pc EXCEPT ![t] = "write"]
    /\ UNCHANGED <<t_calls, t_open, t_ret, t_wrote, w_last, clientVars, wireVars, guiVars>>

\* send_can_frame: serial.write(cmd.encode()) puts the line out in two parts,
\* or raises before one of them; then the return, which leaves the with block
MtWrite(t, raises) ==
    LET ev(e) == [th |-> t, n |-> t_calls[t], ev |-> e] IN
    /\ t_pc[t] \in {"write", "write2"}
    /\ IF raises
       THEN /\ w_last' = ev("raise")
            /\ t_ret' = [t_ret EXCEPT ![t] = FALSE]
            /\ lock' = LockAfterWith(t, TRUE)
            /\ t_pc' = [t_pc EXCEPT ![t] = "sent"]
            /\ UNCHANGED <<t_open, t_wrote>>
       ELSE IF t_pc[t] = "write"
       THEN /\ w_last' = ev("head")
            /\ t_wrote' = [t_wrote EXCEPT ![t] = @ + 1]
            /\ t_pc' = [t_pc EXCEPT ![t] = "write2"]
            /\ UNCHANGED <<lock, t_ret, t_open>>
       ELSE /\ w_last' = ev("tail")
            /\ t_wrote' = [t_wrote EXCEPT ![t] = @ + 1]
            /\ t_ret' = [t_ret EXCEPT ![t] = TRUE]
            /\ t_open' = [t_open EXCEPT ![t] = @ + 1]
            /\ lock' = LockAfterWith(t, FALSE)
            /\ t_pc' = [t_pc EXCEPT ![t] = "sent"]
    /\ UNCHANGED <<t_calls, clientVars, wireVars, guiVars>>

\* _send_uds: if not send_can_frame(...): return None; else the poll loop
MtAfterSend(t) ==
    /\ t_pc[t] = "sent"
    /\ t_pc' = [t_pc EXCEPT ![t] = IF WaitsForResponse(t_ret[t])
                                   THEN "poll" ELSE "idle"]
    /\ UNCHANGED <<lock, t_calls, t_open, t_ret, t_wrote, w_last, clientVars,
                   wireVars, guiVars>>

\* _send_uds: receive_can_frame reads the oldest line; a frame from rx_id is
\* returned, which resolves the request, any other line is dropped
MtRecv(t) ==
    LET l == Head(rxbuf) IN
    /\ t_pc[t] = "poll"
    /\ rxbuf # <<>>
    /\ rxbuf' = Tail(rxbuf)
    /\ IF l.id # NoId /\ Resolves(l.id)
       THEN /\ t_pc' = [t_pc EXCEPT ![t] = "idle"]
            /\ t_open' = [t_open EXCEPT ![t] = IF l.id = rx_id THEN @ - 1 ELSE @]
       ELSE UNCHANGED <<t_pc, t_open>>
    /\ UNCHANGED <<lock, t_calls, t_ret, t_wrote, w_last, wireVars, guiVars>>
    /\ UNCHANGED <<is_connected, serial_open, arrivals, now, pc, op, data,
                   sent, start_time, recv_start, response, send_ok, resp_from,
                   stale, resp_stale, discarded, result, seg_idx, segments,
                   queries, last_ret>>

\* _send_uds: the deadline has passed, None is returned
MtDeadline(t) ==
    /\ t_pc[t] = "poll"
    /\ t_pc' = [t_pc EXCEPT ![t] = "idle"]
    /\ t_open' = [t_open EXCEPT ![t] = @ - 1]
    /\ UNCHANGED <<lock, t_calls, t_ret, t_wrote, w_last, clientVars, wireVars, guiVars>>

MtNext ==
    \/ \E f \in 0..5 : MtConnect(f)
    \/ MtDisconnect
    \/ \E l \in Lines : MtArrive(l)
    \/ \E t \in Threads : MtCall(t)
    \/ \E t \in Threads : MtCheck(t)
    \/ \E t \in Threads : MtAcquire(t)
    \/ \E t \in Threads, raises \in BOOLEAN : MtWrite(t, raises)
    \/ \E t \in Threads : MtAfterSend(t)
    \/ \E t \in Threads : MtRecv(t)
    \/ \E t \in Threads : MtDeadline(t)

----------------------------------------------------------------------------
(* The two paths that mark a link connected, with the adapter commands they  *)
(* issue, and the scan thread of DSMReaderGUI (src/dsm_reader_gui.py).  The  *)
(* GUI has its own serial port, connection flag and scan loop; it does not   *)
(* use OpenPortConnector or DSMProtocol.                                     *)

\* faulty variant of ConnectSequence: the monitoring mode is not switched on
ConnectSequenceNoMonitor == <<"C", "O", "S">>

\* OpenPortConnector.connect: the commands of the adapter set-up, in the order
\* of the calls of _send_command: close, open, set speed, monitoring mode
ConnectSequence == <<"C", "O", "S", "M1">>

\* DSMReaderGUI.connect_to_port: the commands, in the order of the calls of
\* send_openport_command
GuiConnectSequence == <<"C", "O", "S">>

\* the identifiers of scan_dsm_thread: 0xF100 and its successors
GuiScanRange == [i \in 1..GuiSegments |-> 61696 + (i - 1)]

ScanThreads == 1..MaxScans

GuiIdle ==
    /\ c_step = 0
    /\ cmds = <<>>
    /\ c_ret = "running"
    /\ c_opened = FALSE
    /\ g_connected = FALSE
    /\ g_serial = FALSE
    /\ g_step = 0
    /\ g_cmds = <<>>
    /\ scanning = FALSE
    /\ s_started = 0
    /\ s_pc = [i \in ScanThreads |-> "unborn"]
    /\ s_seg = [i \in ScanThreads |-> 0]
    /\ s_cleared = [i \in ScanThreads |-> FALSE]
    /\ s_late = [i \in ScanThreads |-> FALSE]

connFrame == <<rxbuf, arrivals, now, pc, op, data, sent, result, callVars,
               scanVars, wireVars, mtVars>>

\* OpenPortConnector.connect: serial.Serial(...), which may raise
LinkOpen(raises) ==
    /\ pc = "idle"
    /\ c_step = 0
    /\ cmds' = <<>>
    /\ c_opened' = ~raises
    /\ IF raises
       THEN /\ c_ret' = "False"
            /\ UNCHANGED <<c_step, serial_open>>
       ELSE /\ c_ret' = "running"
            /\ c_step' = 1
            /\ serial_open' = TRUE
    /\ UNCHANGED <<is_connected, connFrame, guiConnVars, scanThreadVars>>

\* OpenPortConnector.connect: the next _send_command, which may raise; the
\* except clause then ends connect
LinkCommand(raises) ==
    /\ c_step \in 1..Len(ConnectSequence)
    /\ IF raises
       THEN /\ c_step' = 0
            /\ c_ret' = "False"
            /\ UNCHANGED cmds
       ELSE /\ cmds' = Append(cmds, ConnectSequence[c_step])
            /\ c_step' = c_step + 1
            /\ UNCHANGED c_ret
    /\ UNCHANGED <<c_opened, linkVars, connFrame, guiConnVars, scanThreadVars>>

\* OpenPortConnector.connect: self.is_connected = True
LinkMark ==
    /\ c_step = Len(ConnectSequence) + 1
    /\ is_connected' = TRUE
    /\ c_step' = 0
    /\ c_ret' = "True"
    /\ UNCHANGED <<serial_open, cmds, c_opened, connFrame, guiConnVars,
                   scanThreadVars>>

\* OpenPortConnector.disconnect
LinkDisconnect ==
    /\ c_step = 0
    /\ DisconnectLink
    /\ UNCHANGED <<connFrame, guiVars>>

\* toggle_connection while not connected: connect_to_port, serial.Serial(...),
\* which may raise
GuiOpen(raises) ==
    /\ g_step = 0
    /\ ~g_connected
    /\ g_cmds' = <<>>
    /\ IF raises
       THEN UNCHANGED <<g_step, g_serial>>
       ELSE /\ g_step' = 1
            /\ g_serial' = TRUE
    /\ UNCHANGED <<g_connected, connVars, scanThreadVars, clientVars, wireVars,
                   mtVars>>

\* connect_to_port: the next send_openport_command, which may raise; the
\* except clause then ends connect_to_port
GuiCommand(raises) ==
    /\ g_step \in 1..Len(GuiConnectSequence)
    /\ IF raises
       THEN /\ g_step' = 0
            /\ UNCHANGED g_cmds
       ELSE /\ g_cmds' = Append(g_cmds, GuiConnectSequence[g_step])
            /\ g_step' = g_step + 1
    /\ UNCHANGED <<g_connected, g_serial, connVars, scanThreadVars, clientVars,
                   wireVars, mtVars>>

\* connect_to_port: self.is_connected = True
GuiMark ==
    /\ g_step = Len(GuiConnectSequence) + 1
    /\ g_connected' = TRUE
    /\ g_step' = 0
    /\ UNCHANGED <<g_serial, g_cmds, connVars, scanThreadVars, clientVars,
                   wireVars, mtVars>>

\* toggle_connection while connected: disconnect_port
GuiDisconnect ==
    /\ g_step = 0
    /\ g_connected
    /\ g_serial' = FALSE
    /\ g_connected' = FALSE
    /\ UNCHANGED <<g_step, g_cmds, connVars, scanThreadVars, clientVars,
                   wireVars, mtVars>>

\* toggle_scan while not scanning: start_scanning, which returns at once when
\* the GUI is not connected, and else sets the flag and starts a scan thread
StartScanning ==
    /\ g_step = 0
    /\ ~scanning
    /\ s_started < MaxScans
    /\ IF g_connected
       THEN /\ scanning' = TRUE
            /\ s_started' = s_started + 1
            /\ s_pc' = [s_pc EXCEPT ![s_started + 1] = "check"]
            /\ UNCHANGED <<s_seg, s_cleared, s_late>>
       ELSE UNCHANGED scanThreadVars
    /\ UNCHANGED <<connVars, guiConnVars, clientVars, wireVars, mtVars>>

\* stop_scan, from the stop button or from toggle_scan while scanning
StopScan ==
    /\ g_step = 0
    /\ scanning' = FALSE
    /\ s_cleared' = [i \in ScanThreads |->
                        s_cleared[i] \/ s_pc[i] \in {"check", "read", "sleep"}]
    /\ UNCHANGED <<s_started, s_pc, s_seg, s_late>>
    /\ UNCHANGED <<connVars, guiConnVars, clientVars, wireVars, mtVars>>

\* scan_dsm_thread: the head of the for loop and the test of self.scanning;
\* the thread goes on to read_dsm_segment, or leaves the loop
ScanCheck(i) ==
    /\ s_pc[i] = "check"
    /\ IF s_seg[i] < Len(GuiScanRange) /\ scanning
       THEN /\ s_pc' = [s_pc EXCEPT ![i] = "read"]
            /\ s_late' = [s_late EXCEPT ![i] = @ \/ s_cleared[i]]
       ELSE /\ s_pc' = [s_pc EXCEPT ![i] = "end"]
            /\ UNCHANGED s_late
    /\ UNCHANGED <<scanning, s_started, s_seg, s_cleared>>
    /\ UNCHANGED <<connVars, guiConnVars, clientVars, wireVars, mtVars>>

\* scan_dsm_thread: read_dsm_segment(seg_id) runs to its end
ScanRead(i) ==
    /\ s_pc[i] = "read"
    /\ s_pc' = [s_pc EXCEPT ![i] = "sleep"]
    /\ UNCHANGED <<scanning, s_started, s_seg, s_cleared, s_late>>
    /\ UNCHANGED <<connVars, guiConnVars, clientVars, wireVars, mtVars>>

\* scan_dsm_thread: time.sleep(0.1), then the next seg_id
ScanPause(i) ==
    /\ s_pc[i] = "sleep"
    /\ s_seg' = [s_seg EXCEPT ![i] = @ + 1]
    /\ s_pc' = [s_pc EXCEPT ![i] = "check"]
    /\ UNCHANGED <<scanning, s_started, s_cleared, s_late>>
    /\ UNCHANGED <<connVars, guiConnVars, clientVars, wireVars, mtVars>>

\* scan_dsm_thread: after the loop, self.scanning = False
ScanEnd(i) ==
    /\ s_pc[i] = "end"
    /\ scanning' = FALSE
    /\ s_pc' = [s_pc EXCEPT ![i] = "done"]
    /\ UNCHANGED <<s_started, s_seg, s_cleared, s_late>>
    /\ UNCHANGED <<connVars, guiConnVars, clientVars, wireVars, mtVars>>

\* the two connection paths
ConnNext ==
    \/ \E raises \in BOOLEAN : LinkOpen(raises)
    \/ \E raises \in BOOLEAN : LinkCommand(raises)
    \/ LinkMark
    \/ LinkDisconnect
    \/ \E raises \in BOOLEAN : GuiOpen(raises)
    \/ \E raises \in BOOLEAN : GuiCommand(raises)
    \/ GuiMark
    \/ GuiDisconnect

\* the GUI
GuiNext ==
    \/ \E raises \in BOOLEAN : GuiOpen(raises)
    \/ \E raises \in BOOLEAN : GuiCommand(raises)
    \/ GuiMark
    \/ GuiDisconnect
    \/ StartScanning
    \/ StopScan
    \/ \E i \in ScanThreads : ScanCheck(i)
    \/ \E i \in ScanThreads : ScanRead(i)
    \/ \E i \in ScanThreads : ScanPause(i)
    \/ \E i \in ScanThreads : ScanEnd(i)

----------------------------------------------------------------------------
(* The serial line of a CAN frame: send_can_frame formats it,                *)
(* receive_can_frame parses it.  A line is a sequence of characters.         *)

HexUpper == <<"0", "1", "2", "3", "4", "5", "6", "7",
              "8", "9", "A", "B", "C", "D", "E", "F">>
HexLower == <<"0", "1", "2", "3", "4", "5", "6", "7",
              "8", "9", "a", "b", "c", "d", "e", "f">>

\* format(n, 'X') for n >= 0
RECURSIVE HexOfNat(_)
HexOfNat(n) ==
    IF n < 16 THEN <<HexUpper[n + 1]>>
    ELSE HexOfNat(n \div 16) \o <<HexUpper[(n % 16) + 1]>>

\* the zero fill of a format of minimum width w
RECURSIVE ZeroPad(_, _)
ZeroPad(s, w) == IF Len(s) >= w THEN s ELSE ZeroPad(<<"0">> \o s, w)

\* bytes.hex(): two lower-case digits per byte
RECURSIVE BytesHex(_)
BytesHex(b) ==
    IF b = <<>> THEN <<>>
    ELSE <<HexLower[(b[1] \div 16) + 1], HexLower[(b[1] % 16) + 1]>>
         \o BytesHex(Tail(b))

\* faulty variant of FrameLine: the identifier is not filled to three digits
FrameLineNoFill(id, d) ==
    <<"t">> \o HexOfNat(id) \o BytesHex(d) \o <<"\r">>

\* send_can_frame: f't{can_id:03X}{data.hex()}\r'
FrameLine(id, d) ==
    <<"t">> \o ZeroPad(HexOfNat(id), 3) \o BytesHex(d) \o <<"\r">>

\* the characters str.strip() and int() take for white space
IsSpace(c) == c \in {" ", "\t", "\n", "\r"}

\* the test of the filter of receive_can_frame: c in '0123456789ABCDEFabcdef'
IsHex(c) == \E i \in 1..16 : c = HexUpper[i] \/ c = HexLower[i]

\* the value of the hexadecimal digit c
HexValue(c) == (CHOOSE i \in 1..16 : c = HexUpper[i] \/ c = HexLower[i]) - 1

RECURSIVE LStrip(_)
LStrip(s) == IF s # <<>> /\ IsSpace(s[1]) THEN LStrip(Tail(s)) ELSE s

RECURSIVE RStrip(_)
RStrip(s) ==
    IF s # <<>> /\ IsSpace(s[Len(s)]) THEN RStrip(SubSeq(s, 1, Len(s) - 1))
    ELSE s

\* str.strip()
Strip(s) == RStrip(LStrip(s))

\* the number a sequence of hexadecimal digits denotes
RECURSIVE HexNat(_)
HexNat(s) ==
    IF s = <<>> THEN 0
    ELSE 16 * HexNat(SubSeq(s, 1, Len(s) - 1)) + HexValue(s[Len(s)])

\* int(s, 16): white space around the number, a sign, a 0x prefix and single
\* underscores between digits are accepted; ok is false where int() raises
\* ValueError
IntHex(s) ==
    LET s1 == Strip(s)
        signed == s1 # <<>> /\ s1[1] \in {"+", "-"}
        s2 == IF signed THEN Tail(s1) ELSE s1
        prefixed == Len(s2) >= 2 /\ s2[1] = "0" /\ s2[2] \in {"x", "X"}
        s3 == IF prefixed THEN SubSeq(s2, 3, Len(s2)) ELSE s2
        s4 == IF prefixed /\ s3 # <<>> /\ s3[1] = "_" THEN Tail(s3) ELSE s3
        wellformed ==
            /\ s4 # <<>>
            /\ \A i \in 1..Len(s4) : IsHex(s4[i]) \/ s4[i] = "_"
            /\ s4[1] # "_" /\ s4[Len(s4)] # "_"
            /\ \A i \in 1..(Len(s4) - 1) : ~(s4[i] = "_" /\ s4[i + 1] = "_")
        n == HexNat(SelectSeq(s4, IsHex))
    IN  IF wellformed
        THEN [ok |-> TRUE, v |-> IF s1[1] = "-" THEN 0 - n ELSE n]
        ELSE [ok |-> FALSE, v |-> 0]

\* bytes.fromhex(h) for an even number of hexadecimal digits
RECURSIVE FromHex(_)
FromHex(h) ==
    IF Len(h) < 2 THEN <<>>
    ELSE <<16 * HexValue(h[1]) + HexValue(h[2])>> \o FromHex(SubSeq(h, 3, Len(h)))

\* receive_can_frame returned no frame for the line
NoFrame == [t |-> "none"]

\* faulty variant of ParseLine: the identifier is read from two characters
ParseLineShortId(raw) ==
    LET l == Strip(raw)
        id == IntHex(SubSeq(l, 2, IF Len(l) < 3 THEN Len(l) ELSE 3))
        data_hex == SelectSeq(SubSeq(l, 4, Len(l)), IsHex)
    IN  IF l = <<>> \/ l[1] # "t" THEN NoFrame
        ELSE IF ~id.ok \/ Len(data_hex) % 2 = 1 THEN NoFrame
        ELSE [t |-> "frame", can_id |-> id.v, data |-> FromHex(data_hex)]

\* receive_can_frame: what the body of the try block makes of the line that
\* readline() returned: a frame, or no frame where the line does not start with
\* 't' or int() or fromhex() raises
ParseLine(raw) ==
    LET l == Strip(raw)
        id == IntHex(SubSeq(l, 2, IF Len(l) < 4 THEN Len(l) ELSE 4))
        data_hex == SelectSeq(SubSeq(l, 5, Len(l)), IsHex)
    IN  IF l = <<>> \/ l[1] # "t" THEN NoFrame
        ELSE IF ~id.ok \/ Len(data_hex) % 2 = 1 THEN NoFrame
        ELSE [t |-> "frame", can_id |-> id.v, data |-> FromHex(data_hex)]

(* Sample inputs *)

\* 11-bit identifiers
CanIds == {0, 10, 171, 256, 2016, 2024, 2047}

\* payloads of 0 to 8 bytes
Payloads == {<<>>, <<0>>, <<255>>, <<16, 3>>, <<171, 205, 239>>,
             <<98, 241, 0, 170, 187>>,
             <<1, 35, 69, 103, 137, 171, 205, 239>>,
             <<250, 206, 190, 173, 222, 202, 15, 240>>}

\* letter cases in which the adapter may hand a line's hex digits back
Cases == {"lower", "upper", "mixed"}

\* lines that do not come from send_can_frame
NoiseLines ==
    { <<>>,
      <<"\n">>,
      <<"x", "7", "E", "8", "6", "2", "\n">>,
      <<"T", "7", "E", "8", "6", "2", "\n">>,
      <<"t", "\n">>,
      <<"t", "7", "E", "\n">>,
      <<"t", "z", "z", "z", "6", "2", "\n">>,
      <<"t", "7", "E", "8", "6", "\n">>,
      <<"t", "7", "E", "8", "6", "z", "2", "\n">>,
      <<"t", "-", "7", "E", "6", "2", "\n">>,
      <<"t", "0", "x", "1", "6", "2", "\n">>,
      <<"t", "7", "_", "E", "6", "2", "\n">>,
      <<"t", "7", "E", "8", "6", "2", "F", "1", "\r", "\n">> }

\* the character c in letter case k; in "mixed" the case depends on the
\* position i
InCase(c, k, i) ==
    IF ~IsHex(c) THEN c
    ELSE IF k = "upper" \/ (k = "mixed" /\ i % 2 = 0)
         THEN HexUpper[HexValue(c) + 1]
         ELSE HexLower[HexValue(c) + 1]

WireIdle ==
    /\ w_pc = "off"
    /\ w_src = "none"
    /\ can_id = 0
    /\ payload = <<>>
    /\ w_line = <<>>
    /\ frame = NoFrame

\* a frame line round trip starts from a frame to send or from a line of noise
WireInit ==
    /\ ClientInit
    /\ MtIdle
    /\ GuiIdle
    /\ frame = NoFrame
    /\ \/ /\ w_pc = "start"
          /\ w_src = "send"
          /\ can_id \in CanIds
          /\ payload \in Payloads
          /\ w_line = <<>>
       \/ /\ w_pc = "received"
          /\ w_src = "noise"
          /\ can_id = 0
          /\ payload = <<>>
          /\ w_line \in NoiseLines

\* send_can_frame: the line handed to serial.write
WireFormat ==
    /\ w_pc = "start"
    /\ w_line' = FrameLine(can_id, payload)
    /\ w_pc' = "written"
    /\ UNCHANGED <<w_src, can_id, payload, frame, clientVars, mtVars, guiVars>>

\* the line comes back from the adapter, its payload digits in letter case k,
\* ended as the adapter ends lines
WireEcho(k, nl) ==
    /\ w_pc = "written"
    /\ w_line' = [i \in 1..Len(w_line) |->
                   IF i > 4 THEN InCase(w_line[i], k, i) ELSE w_line[i]]
               \o (IF nl THEN <<"\n">> ELSE <<>>)
    /\ w_pc' = "received"
    /\ UNCHANGED <<w_src, can_id, payload, frame, clientVars, mtVars, guiVars>>

\* receive_can_frame: the parse of the line readline() returned
WireParse ==
    /\ w_pc = "received"
    /\ frame' = ParseLine(w_line)
    /\ w_pc' = "parsed"
    /\ UNCHANGED <<w_src, can_id, payload, w_line, clientVars, mtVars, guiVars>>

WireNext ==
    \/ WireFormat
    \/ \E k \in Cases, nl \in BOOLEAN : WireEcho(k, nl)
    \/ WireParse

WireSpec == WireInit /\ [][WireNext]_vars

----------------------------------------------------------------------------

Init ==
    /\ ClientInit
    /\ WireIdle
    /\ MtIdle
    /\ GuiIdle

MtSpec == Init /\ [][MtNext]_vars

ConnSpec == Init /\ [][ConnNext]_vars

GuiSpec == Init /\ [][GuiNext]_vars

Next ==
    \/ \E f \in 0..5 : Connect(f)
    \/ Disconnect
    \/ \E l \in Lines : Arrive(l)
    \/ CallStartSession
    \/ \E i \in DataIds : CallReadDataByIdentifier(i)
    \/ \E a \in SaArgs : CallSecurityAccess(a[1], a[2])
    \/ \E a \in SaArgs : CallSecurityAccessNoSend(a[1], a[2])
    \/ \E m \in MemArgs : CallReadMemoryByAddress(m[1], m[2])
    \/ \E a \in ScanArgs : CallScan(a[1], a[2], a[3])
    \/ \E wr \in BOOLEAN : SendCanFrame(wr)
    \/ Poll
    \/ RecvTimeout
    \/ RecvSpin
    \/ \E d \in {0} \cup BlockTimes : RecvLine(d)
    \/ ScanSleep
    \/ Return

Spec == Init /\ [][Next]_vars

TypeOK ==
    /\ is_connected \in BOOLEAN
    /\ serial_open \in BOOLEAN
    /\ pc \in {"idle", "send", "poll", "recv", "sleep", "done"}
    /\ arrivals \in 0..MaxArrivals
    /\ Len(rxbuf) <= MaxBuf
    /\ now >= 0

----------------------------------------------------------------------------
(* Properties *)

UdsOps == {"start_session", "read_data_by_identifier", "security_access",
           "read_memory_by_address"}

\* an operation has returned / a read of the scan has returned
Returned == pc = "done" /\ op.name \in UdsOps
ReadReturned == Returned \/ (pc = "sleep" /\ op.name = "scan_eeprom_segments")

\* the outcome of an operation that got no response
IsAbsent(o, r) ==
    IF o.name = "security_access" /\ o.level = 2 THEN r = Bool(FALSE) ELSE r = None

\* C1: when the request was sent and no frame with id rx_id was received, the
\* operation returns the absent outcome, and it returns within the 2.0 s
\* deadline plus one 0.1 s poll slice of the send, whatever else arrives on the
\* serial link.
C1_AbsentWithinDeadline ==
    (Returned /\ send_ok /\ resp_from # rx_id)
        => (IsAbsent(op, result) /\ now - start_time <= Timeout + Slice)

\* C2: a frame whose id is not rx_id never resolves the request; while frames
\* are being dropped the request stays unresolved, and once _send_uds has
\* returned after a send, either its value is the payload of a frame with id
\* rx_id, or it is None and the deadline has elapsed.
C2_OnlyRxFrameOrDeadlineResolves ==
    /\ pc \in {"poll", "recv"} => (response = None /\ resp_from = NoId)
    /\ (ReadReturned /\ send_ok) =>
          \/ resp_from = rx_id /\ response # None
          \/ resp_from = NoId /\ response = None /\ now - start_time >= Timeout

\* two frames with another id were dropped before the frame with id rx_id
\* resolved the request
C2_Witness == Returned /\ discarded >= 2 /\ resp_from = rx_id

\* C3: read_data_by_identifier(id) returns the response from offset 3 onward
\* if and only if the response has byte 0 = 0x62, byte 1 = id >> 8 and byte 2 =
\* id & 0xFF (three bytes give empty data); in every other case it returns
\* None.
C3_ReadDataByIdentifierResult ==
    (pc = "done" /\ op.name = "read_data_by_identifier") =>
        LET id == op.data_id
            accepted == /\ response # None
                        /\ Len(response.v) >= 3
                        /\ response.v[1] = 98
                        /\ response.v[2] = id \div 256
                        /\ response.v[3] = id % 256
        IN  IF accepted
            THEN result = Bytes(SubSeq(response.v, 4, Len(response.v)))
            ELSE result = None

\* a response of exactly three bytes that echoes the identifier gave empty data
C3_Witness ==
    /\ pc = "done" /\ op.name = "read_data_by_identifier"
    /\ op.data_id = 61696
    /\ response = Bytes(<<98, 241, 0>>)
    /\ result = Bytes(<<>>)

\* C4: every frame written to the link has a payload of at most 8 bytes.
C4_PayloadAtMost8 ==
    \A i \in 1..Len(sent) : Len(sent[i].data) <= 8

\* C5: read_data_by_identifier(id) hands to send_can_frame, on tx_id, exactly
\* the 3 bytes 0x22, id >> 8, id & 0xFF, and nothing else is written.
C5_RdbiRequestBytes ==
    (pc # "idle" /\ op.name = "read_data_by_identifier") =>
        LET req == <<34, op.data_id \div 256, op.data_id % 256>> IN
        /\ data = req
        /\ sent = IF send_ok THEN <<[id |-> 2016, data |-> req]>> ELSE <<>>

\* the request for 0x1234 was written
C5_Witness ==
    /\ pc = "done" /\ op.name = "read_data_by_identifier"
    /\ op.data_id = 4660
    /\ sent = <<[id |-> 2016, data |-> <<34, 18, 52>>]>>

\* C6: read_memory_by_address(a, n) hands to send_can_frame the 9 bytes 0x23,
\* 0x44, 0x22, then a as 4 bytes and n as 2 bytes, most significant byte first;
\* (0x12345678, 0x0100) gives 23 44 22 12 34 56 78 01 00.
C6_RmbaRequestBytes ==
    (pc # "idle" /\ op.name = "read_memory_by_address") =>
        /\ Len(data) = 9
        /\ \A i \in 1..9 : data[i] \in 0..255
        /\ <<data[1], data[2], data[3]>> = <<35, 68, 34>>
        /\ ((data[4] * 256 + data[5]) * 256 + data[6]) * 256 + data[7] = op.address
        /\ data[8] * 256 + data[9] = op.length
        /\ (op.address = 305419896 /\ op.length = 256)
              => data = <<35, 68, 34, 18, 52, 86, 120, 1, 0>>
        /\ sent = IF send_ok THEN <<[id |-> 2016, data |-> data]>> ELSE <<>>

\* the request for (0x12345678, 0x0100) was written
C6_Witness ==
    /\ pc = "done" /\ op.name = "read_memory_by_address"
    /\ op.address = 305419896 /\ op.length = 256
    /\ Len(sent) = 1
    /\ sent[1].data = <<35, 68, 34, 18, 52, 86, 120, 1, 0>>

\* C7: read_memory_by_address returns the response from offset 1 onward if and
\* only if byte 0 of the response is 0x63; for any other response, an empty
\* one included, and without a response (timeout, failed send) it returns None.
C7_RmbaResult ==
    (pc = "done" /\ op.name = "read_memory_by_address") =>
        LET accepted == /\ response # None
                        /\ Len(response.v) >= 1
                        /\ response.v[1] = 99
        IN  IF accepted
            THEN result = Bytes(Tail(response.v))
            ELSE result = None

\* a response starting with 0x63 gave its remaining bytes
C7_Witness ==
    /\ pc = "done" /\ op.name = "read_memory_by_address"
    /\ response = Bytes(<<99, 170, 187>>)
    /\ result = Bytes(<<170, 187>>)

\* C8 as stated: security_access(1) sends 0x27 0x01 and returns the response
\* from offset 2 onward whenever byte 0 = 0x67 and byte 1 = 0x01, for a seed
\* of any length, and None otherwise.
C8_SeedOfAnyLength ==
    (pc = "done" /\ op.name = "security_access" /\ op.level = 1) =>
        LET accepted == /\ response # None
                        /\ Len(response.v) >= 2
                        /\ response.v[1] = 103
                        /\ response.v[2] = 1
        IN  /\ send_ok => sent = <<[id |-> 2016, data |-> <<39, 1>>]>>
            /\ IF accepted
               THEN result = Bytes(SubSeq(response.v, 3, Len(response.v)))
               ELSE result = None

\* C8 amended: security_access(1) sends 0x27 0x01 and returns the response
\* from offset 2 onward whenever the response has at least 3 bytes, byte 0 =
\* 0x67 and byte 1 = 0x01; for any other response (the 2-byte 0x67 0x01 with
\* an empty seed included) and without a response it returns None.
C8_SeedNonEmpty ==
    (pc = "done" /\ op.name = "security_access" /\ op.level = 1) =>
        LET accepted == /\ response # None
                        /\ Len(response.v) >= 3
                        /\ response.v[1] = 103
                        /\ response.v[2] = 1
        IN  /\ send_ok => sent = <<[id |-> 2016, data |-> <<39, 1>>]>>
            /\ ~send_ok => sent = <<>>
            /\ IF accepted
               THEN result = Bytes(SubSeq(response.v, 3, Len(response.v)))
               ELSE result = None

\* the response 67 01 AA BB gave the seed AA BB
C8_Witness ==
    /\ pc = "done" /\ op.name = "security_access" /\ op.level = 1
    /\ response = Bytes(<<103, 1, 170, 187>>)
    /\ result = Bytes(<<170, 187>>)

\* C9 as stated: security_access(2, key) sends 0x27 0x02 and the key and
\* returns a boolean for every key: true if a frame with id rx_id was
\* received, false otherwise.
C9_BooleanForEveryKey ==
    (pc = "done" /\ op.name = "security_access" /\ op.level = 2
        /\ op.key # None) =>
        result = Bool(resp_from = rx_id)

\* C9 amended: for every key that is not empty, security_access(2, key) hands
\* 0x27 0x02 and the key bytes to send_can_frame and returns true if _send_uds
\* returned the payload of a frame with id rx_id, whatever the payload, and
\* false otherwise; with no key or an empty key it sends nothing and returns
\* None.
C9_BooleanForNonEmptyKey ==
    (pc = "done" /\ op.name = "security_access" /\ op.level = 2) =>
        IF op.key # None /\ Len(op.key.v) > 0
        THEN /\ result = Bool(resp_from = rx_id)
             /\ data = <<39, 2>> \o op.key.v
             /\ sent = IF send_ok THEN <<[id |-> 2016, data |-> data]>> ELSE <<>>
        ELSE /\ result = None
             /\ sent = <<>>

\* a frame with id rx_id and an empty payload made the call return true
C9_Witness ==
    /\ pc = "done" /\ op.name = "security_access" /\ op.level = 2
    /\ response = Bytes(<<>>)
    /\ result = Bool(TRUE)

\* C10: scan_eeprom_segments(start, end, step) with step > 0 and start <= end
\* calls read_data_by_identifier for start, start + step, ... in this order,
\* none skipped or repeated, floor((end - start) / step) + 1 times in all
\* (3 times for [0xF100, 0xF120] step 0x10), and each request after the first
\* is sent no sooner than 20 ms after the previous read returned.
C10_ScanQueries ==
    (op.name = "scan_eeprom_segments" /\ op.step > 0 /\ op.start_id <= op.end_id) =>
        LET n == ((op.end_id - op.start_id) \div op.step) + 1
            expected == [k \in 1..n |-> op.start_id + (k - 1) * op.step]
        IN  /\ Len(queries) <= n
            /\ queries = SubSeq(expected, 1, Len(queries))
            /\ pc = "done" => queries = expected
            /\ (pc = "done" /\ op.start_id = 61696 /\ op.end_id = 61728
                   /\ op.step = 16) => Len(queries) = 3
            /\ (pc = "send" /\ Len(queries) > 1) => now - last_ret >= ScanDelay
            /\ pc = "done" => Len(sent) <= n

\* the scan of [0xF100, 0xF120] step 0x10 has returned after its three requests
C10_Witness ==
    /\ pc = "done" /\ op.name = "scan_eeprom_segments"
    /\ op.start_id = 61696 /\ op.end_id = 61728 /\ op.step = 16
    /\ queries = <<61696, 61712, 61728>>
    /\ Len(sent) = 3

\* C11: in a scan, each read that returns non-empty data adds exactly the pair
\* (identifier, data) at the end of segments, a read that returns None or empty
\* data adds nothing, nothing else changes segments, after every read the next
\* identifier of the range is read while one is left, and the list returned is
\* segments.
C11_Step ==
    op.name = "scan_eeprom_segments" =>
        LET id == queries[Len(queries)]
            n == Len(ScanRange(op.start_id, op.end_id, op.step))
            r == response'
            got == /\ r # None
                   /\ Len(r.v) > 3
                   /\ r.v[1] = 98
                   /\ r.v[2] = id \div 256
                   /\ r.v[3] = id % 256
        IN  /\ (pc # "sleep" /\ pc' = "sleep") =>
                  segments' = IF got
                              THEN Append(segments, <<id, SubSeq(r.v, 4, Len(r.v))>>)
                              ELSE segments
            /\ (~(pc # "sleep" /\ pc' = "sleep") /\ pc # "done") =>
                  segments' = segments
            /\ (pc = "sleep" /\ Len(queries) < n) =>
                  (pc' = "send" /\ Len(queries') = Len(queries) + 1)
            /\ (pc = "sleep" /\ Len(queries) >= n) =>
                  (pc' = "done" /\ result' = List(segments))

C11_ScanCollectsNonEmptyReads == [][C11_Step]_vars

\* the scan of [0xF100, 0xF120] returned the first and the third segment; the
\* read of the second one got no response
C11_Witness ==
    /\ pc = "done" /\ op.name = "scan_eeprom_segments"
    /\ queries = <<61696, 61712, 61728>>
    /\ result = List(<<<<61696, <<170, 187>>>>, <<61728, <<170, 187>>>>>>)

\* C16: when send_can_frame returns false, _send_uds returns None in the same
\* step: no line is taken from the serial buffer and no time passes.
C16_Step ==
    (pc = "send" /\ ~send_ok') =>
        /\ pc' \in {"done", "sleep"}
        /\ response' = None
        /\ rxbuf' = rxbuf
        /\ now' = now
        /\ op.name \in UdsOps => IsAbsent(op, result')

C16_FailedSendReturnsAtOnce == [][C16_Step]_vars

\* a write that raised on a connected link: the operation has returned and the
\* line that was waiting is still in the buffer
C16_Witness ==
    /\ Returned /\ data # <<>> /\ ~send_ok
    /\ is_connected /\ rxbuf # <<>>
    /\ now = 0

\* C17 as stated: every invocation of a UDS operation transmits exactly one
\* frame, on tx_id.
C17_ExactlyOneFrame ==
    Returned => (Len(sent) = 1 /\ sent[1].id = 2016)

\* C17 amended: every invocation of a UDS operation transmits at most one
\* frame, on tx_id: exactly one, carrying the request, when send_can_frame
\* returned true (whatever the outcome: response, rejected response, timeout),
\* and none when it returned false or when security_access sends no request.
C17_AtMostOneFrame ==
    /\ \A i \in 1..Len(sent) : sent[i].id = 2016
    /\ op.name \in UdsOps =>
          /\ Len(sent) <= 1
          /\ pc \in {"poll", "recv", "done"} =>
                sent = IF send_ok THEN <<[id |-> 2016, data |-> data]>> ELSE <<>>
    /\ op.name = "scan_eeprom_segments" => Len(sent) <= Len(queries)

\* an operation timed out after its single frame
C17_Witness ==
    /\ Returned /\ send_ok /\ resp_from = NoId
    /\ now >= Timeout
    /\ Len(sent) = 1

\* C18 as stated, for the parse: a line that does not start with 't', or has
\* no three hexadecimal digits after it, or whose remaining hexadecimal digits
\* do not pair up into bytes, gives no frame.
C18_MalformedLineGivesNoFrame ==
    LET l == Strip(w_line)
        rest == SelectSeq(SubSeq(l, 5, Len(l)), IsHex)
        wellformed ==
            /\ Len(l) >= 4
            /\ l[1] = "t"
            /\ IsHex(l[2]) /\ IsHex(l[3]) /\ IsHex(l[4])
            /\ Len(rest) % 2 = 0
    IN  (w_pc = "parsed" /\ ~wellformed) => frame = NoFrame

\* C20: the line of send_can_frame is 't', the identifier as three upper-case
\* hexadecimal digits, two hexadecimal digits per payload byte and a carriage
\* return, and the parse of receive_can_frame gives the identifier and the
\* payload back from it in any letter case of the payload digits.
C20_FrameLineRoundTrip ==
    w_src = "send" =>
        /\ w_pc = "written" =>
              /\ Len(w_line) = 5 + 2 * Len(payload)
              /\ w_line[1] = "t"
              /\ w_line[Len(w_line)] = "\r"
              /\ \A i \in 2..4 : \E j \in 1..16 : w_line[i] = HexUpper[j]
              /\ 256 * HexValue(w_line[2]) + 16 * HexValue(w_line[3])
                    + HexValue(w_line[4]) = can_id
              /\ \A i \in 1..Len(payload) :
                    /\ IsHex(w_line[3 + 2 * i]) /\ IsHex(w_line[4 + 2 * i])
                    /\ 16 * HexValue(w_line[3 + 2 * i])
                          + HexValue(w_line[4 + 2 * i]) = payload[i]
        /\ w_pc = "parsed" =>
              frame = [t |-> "frame", can_id |-> can_id, data |-> payload]

\* an 8-byte payload on an identifier with a leading zero came back in upper
\* case and was parsed
C20_Witness ==
    /\ w_src = "send" /\ w_pc = "parsed"
    /\ can_id = 171
    /\ Len(payload) = 8
    /\ w_line[5] = "F"
    /\ frame # NoFrame

\* C13 as stated: at most one request is outstanding in the client at a time,
\* whichever threads call it.
C13_OneOutstandingOverall ==
    t_open[1] + t_open[2] <= 1

\* C13 amended: the requests of one calling thread never overlap: a thread
\* transmits a request only when no earlier request of its own is unresolved,
\* and it waits for exactly that one; requests of different threads may be
\* outstanding together.
C13_OneOutstandingPerThread ==
    \A t \in Threads :
        /\ t_open[t] \in {0, 1}
        /\ t_pc[t] \in {"check", "acquire", "write", "write2"} => t_open[t] = 0
        /\ t_pc[t] = "poll" => t_open[t] = 1
        /\ t_pc[t] = "idle" => t_open[t] = 0

\* both threads wait for a response, one of them for that of its second request
C13_Witness ==
    /\ t_pc[1] = "poll" /\ t_pc[2] = "poll"
    /\ t_calls[1] = 2
    /\ t_open[1] = 1 /\ t_open[2] = 1

\* C14: the serial writes of concurrent send_can_frame calls exclude each
\* other: while a thread is between the two parts of its line it holds the
\* lock, the last thing written is the first part of that line, and no other
\* thread is writing.
C14_WritesMutuallyExclusive ==
    \A t \in Threads :
        /\ t_pc[t] \in {"write", "write2"} =>
              /\ lock = t
              /\ \A u \in Threads \ {t} : t_pc[u] \notin {"write", "write2"}
        /\ t_pc[t] = "write2" =>
              w_last = [th |-> t, n |-> t_calls[t], ev |-> "head"]

\* one thread is between the two parts of its line while the other waits for
\* the lock
C14_Witness ==
    /\ t_pc[1] = "write2"
    /\ t_pc[2] = "acquire"
    /\ lock = 1

\* C15: send_can_frame returns false and has written nothing when the link is
\* not connected, returns false when the write raised, returns true only after
\* both parts of the line were written on a connected link; when it returns
\* the lock is free again and is_connected is as it was.
C15_Returned ==
    /\ \A t \in Threads :
          t_pc[t] = "sent" =>
              /\ ~is_connected => (t_ret[t] = FALSE /\ t_wrote[t] = 0)
              /\ t_wrote[t] < 2 => t_ret[t] = FALSE
              /\ t_ret[t] = TRUE => (is_connected /\ t_wrote[t] = 2)
              /\ lock # t
    /\ lock # NoThread => t_pc[lock] \in {"write", "write2"}

C15_Step ==
    /\ C15_Returned'
    /\ \A t \in Threads :
          (t_pc[t] # "sent" /\ t_pc'[t] = "sent") =>
              /\ is_connected' = is_connected
              /\ lock' # t
              /\ (t_pc[t] = "check") => (~is_connected /\ t_ret'[t] = FALSE)
              /\ w_last'.ev = "raise" => t_ret'[t] = FALSE

C15_SendCanFrameResult == [][C15_Step]_vars

\* the write of thread 1 raised after the first part of its line; the link is
\* still connected and thread 2 has taken the lock since and is writing
C15_Witness ==
    /\ t_pc[1] = "sent" /\ t_ret[1] = FALSE /\ t_wrote[1] = 1
    /\ is_connected
    /\ t_pc[2] = "write2" /\ lock = 2

\* C12 as stated: once the liveness flag of a running scan has been cleared,
\* the scan begins no further segment query.
C12_NoQueryAfterFlagCleared ==
    \A i \in ScanThreads : ~s_late[i]

\* C19 as stated: on every path that marks a link connected, the connected
\* state is entered only when the commands issued are C, O, S<speed>, M1 in
\* that order.
C19_Step ==
    /\ (~is_connected /\ is_connected') => cmds = <<"C", "O", "S", "M1">>
    /\ (~g_connected /\ g_connected') => g_cmds = <<"C", "O", "S", "M1">>

C19_EveryPathIssuesFour == [][C19_Step]_vars

\* C19 amended: OpenPortConnector.connect issues C, O, S<speed>, M1 in that
\* order, one command at a time, and enters the connected state only when all
\* four have been issued without error; connect_to_port of the GUI marks its
\* own link connected after C, O, S<speed> alone.
C19_AmendedStep ==
    /\ cmds' = cmds \/ cmds' = <<>> \/ Len(cmds') = Len(cmds) + 1
    /\ \A i \in 1..Len(cmds') : cmds'[i] = <<"C", "O", "S", "M1">>[i]
    /\ is_connected' # is_connected => cmds' = cmds
    /\ (~is_connected /\ is_connected') => cmds = <<"C", "O", "S", "M1">>
    /\ (~g_connected /\ g_connected') => g_cmds = <<"C", "O", "S">>

C19_ConnectorIssuesFour == [][C19_AmendedStep]_vars

\* both links are marked connected, each after the commands of its own path
C19_Witness ==
    /\ is_connected /\ c_step = 0 /\ cmds = <<"C", "O", "S", "M1">>
    /\ g_connected /\ g_step = 0 /\ g_cmds = <<"C", "O", "S">>

\* C21: the frame whose payload an operation returns or validates was sent in
\* reply to the request of that operation: it was not in the serial buffer
\* already when the request was sent.
C21_AnswerNotStale ==
    (ReadReturned /\ resp_from = rx_id) => ~resp_stale

\* is_connected is True only while the serial line is open
C22_ConnectedOnlyWhileOpen ==
    is_connected => serial_open

\* C22: whenever connect() has returned False the connector is disconnected
\* (is_connected is False and the call has left no serial handle open), and
\* is_connected is True only while the serial line is open.
C22_FailedConnectLeavesDisconnected ==
    /\ (c_ret = "False") => (~is_connected /\ ~(c_opened /\ serial_open))
    /\ C22_ConnectedOnlyWhileOpen

\* scan threads inside the loop of scan_dsm_thread, and those still alive
ScansInLoop == {i \in ScanThreads : s_pc[i] \in {"check", "read", "sleep"}}

ScansAlive == {i \in ScanThreads : s_pc[i] \notin {"unborn", "done"}}

\* the scanning flag is False whenever no scan thread is running
C23_FlagClearWhenNoThread ==
    (ScansAlive = {}) => ~scanning

\* C23: at most one scan thread is running against the serial connection at
\* any time (a stopped scan has left its loop before a newly started one
\* queries), and the scanning flag is False whenever no scan thread is running.
C23_AtMostOneScanThread ==
    /\ Cardinality(ScansInLoop) <= 1
    /\ C23_FlagClearWhenNoThread

====
